---- MODULE Spec2Model ----
(***************************************************************************)
(* Verification model of the artflip dataset scripts:                      *)
(*   - the museum fetchers (scripts/metfetch.py, chicfetch.py,             *)
(*     rijksfetch.py, ngafetch.py): run(), process_artwork() and the file  *)
(*     bookkeeping they do on artworkids.json and the dontfetch lists;     *)
(*   - the search pagination of chicfetch / rijksfetch;                    *)
(*   - the auto-poster retry loop (scripts/autobot.py);                    *)
(*   - the credit-line rewriting tool (public/json_processor.py).          *)
(*                                                                         *)
(* Strings that are artwork IDs are modelled as sequences of character     *)
(* codes: a decimal digit is its value 0..9, any other character a code    *)
(* above 9.  str() and int() are the decimal conversions.                  *)
(***************************************************************************)
EXTENDS Integers, Sequences, FiniteSets, TLC

VARIABLES
    \* ---- fetcher run (metfetch / chicfetch / rijksfetch / ngafetch) ----
    fetcher,               \* which script is running
    pc,                    \* position of the run
    files,                 \* path -> JSON array on disk (sequence of ID strings)
    unreadable,            \* paths whose content is not parseable JSON
    existing_ids,          \* self.existing_ids
    blacklist_ids,         \* self.blacklist_ids
    api_ids,               \* result of fetch_available_artworks (as a set)
    new_ids,               \* result of compare_and_report
    to_download,           \* new_ids[:MAX_NEW_ARTWORKS]
    idx,                   \* loop position in to_download (next index)
    object_id,             \* argument of the current process_artwork call
    artwork_data,          \* metadata record fetched by the current call
    verified_public_domain,\* ngafetch: result of is_public_domain in this call
    local_image_filename,  \* result of download_image in this call
    images,                \* image files written (file stems)
    metadata_files,        \* metadata files written
    failed_downloads,
    successful_downloads,
    downloaded_count,
    newly_blacklisted,
    public_domain_ids,     \* ngafetch caches
    not_public_domain_ids,
    calls,                 \* history: arguments of process_artwork, in call order
    start_ids,             \* history: artworkids.json entries at the start of the run
    start_blacklist,       \* history: dontfetch entries at the start of the run
    start_newids,          \* history: entries of TEMP_NEWIDS_FILE at the start of the run
    rejected,              \* history: IDs for which is_public_domain returned False
    writes,                \* history: the files written by process_artwork, in order
    answers,               \* history: the answer to each metadata request and
                           \* whether the call changed the blacklist file
    \* ---- fetch_available_artworks of chicfetch / rijksfetch ----
    search_fetcher,        \* "chic" or "rijks"
    search_pc,             \* "loop" while paginating, "done" once returned
    page,
    pages_fetched,
    all_ids_len,           \* len(all_ids)
    requests_made,         \* history: search requests issued
    returned_len,          \* len of the returned list
    \* ---- autobot.main ----
    bot_pc,                \* position in main
    retry_count,
    successful_post,
    bot_object_id,         \* main's local object_id (Unbound until assigned)
    creation_id,
    polls,                 \* iterations done of check_media_status's loop
    attempts,              \* history: iterations of the retry loop begun
    status_true,           \* history: <<attempt, creation_id>> for which
                           \* check_media_status returned True
    published,             \* history: <<attempt, creation_id>> of each
                           \* publish_media call, in order
    \* ---- json_processor.process_all_files ----
    json_files,            \* the metadata files of JSON_DIRECTORY, by index
    credit_pc,             \* "files" inside the loop over json_files, "end"
    file_i,                \* index of the next file of the loop
    run_no,                \* history: which run of the script this is
    results,               \* history: status returned, per run and file
    after,                 \* history: the file after each call, per run and file
    \* ---- deploycheck.py ----
    object_ids,            \* the list loaded from artworkids.json
    dep_files,             \* public/metadata/<id>.json and its image, per ID
    dep_pc,                \* "loop", "summary" or "end"
    dep_i,                 \* index of the next entry of object_ids
    missing_json,
    invalid_json,
    missing_fields,
    missing_images,
    errored_files,
    extra_metadata,
    total_issues,
    verdict,               \* the line printed by the final summary
    \* ---- NGADownloader.is_public_domain, called on its own ----
    pd_public_domain_ids,      \* positive cache
    pd_not_public_domain_ids,  \* negative cache
    pd_calls,                  \* history: calls made
    pd_object_id,              \* history: arguments and answers of the last call
    pd_uuid,
    pd_resp,
    pd_head,
    pd_was_cached,             \* history: the object was in a cache at the call
    pd_result,                 \* history: what the last call returned
    \* ---- NGADownloader.load_objects_csv ----
    csv_rows,              \* the rows of objects.csv
    csv_pc,                \* "rows" inside the loop, "done" once returned
    csv_i,                 \* index of the next row
    objects,               \* the dict being built, then returned
    filtered_by_date,
    \* ---- append_to_artworkids of two scripts running at once ----
    shared_file,           \* public/artworkids.json: a list, or NotJson
    ap_pc,                 \* per script: "call", "open", "dump" or "done"
    ap_ids,                \* per script: the local list ids
    ap_n,                  \* per script: append_to_artworkids calls begun
    ap_overlapped,         \* per script: another script wrote the file while
                           \* this script had it open for writing
    returned_true          \* history: IDs whose append returned True

varsRun == <<fetcher, pc, files, unreadable, existing_ids, blacklist_ids, api_ids,
             new_ids, to_download, idx, object_id, artwork_data,
             verified_public_domain, local_image_filename, images, metadata_files,
             failed_downloads, successful_downloads, downloaded_count,
             newly_blacklisted, public_domain_ids, not_public_domain_ids, calls,
             start_ids, start_blacklist, start_newids, rejected, writes, answers>>

varsSearch == <<search_fetcher, search_pc, page, pages_fetched, all_ids_len,
                requests_made, returned_len>>

varsBot == <<bot_pc, retry_count, successful_post, bot_object_id, creation_id,
             polls, attempts, status_true, published>>

varsCredit == <<json_files, credit_pc, file_i, run_no, results, after>>

varsDeploy == <<object_ids, dep_files, dep_pc, dep_i, missing_json, invalid_json,
                missing_fields, missing_images, errored_files, extra_metadata,
                total_issues, verdict>>

varsPd == <<pd_public_domain_ids, pd_not_public_domain_ids, pd_calls, pd_object_id,
            pd_uuid, pd_resp, pd_head, pd_was_cached, pd_result>>

varsCsv == <<csv_rows, csv_pc, csv_i, objects, filtered_by_date>>

varsAppend == <<shared_file, ap_pc, ap_ids, ap_n, ap_overlapped, returned_true>>

vars == <<varsRun, varsSearch, varsBot, varsCredit, varsDeploy,
         varsPd, varsCsv, varsAppend>>

\* ------------------------------------------------------------------------
\* Bounds of the model
\* ------------------------------------------------------------------------
\* number of distinct artwork IDs the museum APIs can return
MaxIds == 2

\* ------------------------------------------------------------------------
\* Strings, str(), int(), sorted()
\* ------------------------------------------------------------------------
Min(a, b) == IF a < b THEN a ELSE b

\* str(n) for a non-negative integer
RECURSIVE IntToStr(_)
IntToStr(n) == IF n < 10 THEN <<n>> ELSE Append(IntToStr(n \div 10), n % 10)

\* str.isdigit()
IsDigit(s) == Len(s) > 0 /\ \A i \in 1..Len(s) : s[i] \in 0..9

\* int(s) for a digit string
RECURSIVE StrToInt(_)
StrToInt(s) ==
    IF Len(s) = 0 THEN 0
    ELSE 10 * StrToInt(SubSeq(s, 1, Len(s) - 1)) + s[Len(s)]

\* s < t for Python strings (code point order, a proper prefix is smaller)
LexLess(s, t) ==
    \E k \in 1..(Min(Len(s), Len(t)) + 1) :
        /\ \A i \in 1..(k - 1) : s[i] = t[i]
        /\ \/ k > Len(s) /\ k <= Len(t)
           \/ k <= Len(s) /\ k <= Len(t) /\ s[k] < t[k]

\* sorted(S) for a set of integers
RECURSIVE SortedInts(_)
SortedInts(S) ==
    IF S = {} THEN <<>>
    ELSE LET m == CHOOSE x \in S : \A y \in S : x <= y
         IN  <<m>> \o SortedInts(S \ {m})

\* sorted(S) for a set of strings
RECURSIVE SortedStrs(_)
SortedStrs(S) ==
    IF S = {} THEN <<>>
    ELSE LET m == CHOOSE x \in S : \A y \in S : x = y \/ LexLess(x, y)
         IN  <<m>> \o SortedStrs(S \ {m})

\* sorted(S, key=int) for a set of digit strings
RECURSIVE SortedByInt(_)
SortedByInt(S) ==
    IF S = {} THEN <<>>
    ELSE LET m == CHOOSE x \in S : \A y \in S : StrToInt(x) <= StrToInt(y)
         IN  <<m>> \o SortedByInt(S \ {m})

Range(seq) == {seq[i] : i \in 1..Len(seq)}

\* mutant of Take: the slice is forgotten
TakeAll(seq, n) == seq

\* seq[:n]
Take(seq, n) == SubSeq(seq, 1, Min(n, Len(seq)))

\* ------------------------------------------------------------------------
\* Configuration of the four fetchers
\* ------------------------------------------------------------------------
Fetchers == {"met", "chic", "rijks", "nga"}

MET_MAX_NEW_ARTWORKS == 1
CHIC_MAX_NEW_ARTWORKS == 100
RIJKS_MAX_NEW_ARTWORKS == 20
NGA_MAX_NEW_ARTWORKS == 1500

MAX_NEW_ARTWORKS(f) ==
    CASE f = "met"   -> MET_MAX_NEW_ARTWORKS
      [] f = "chic"  -> CHIC_MAX_NEW_ARTWORKS
      [] f = "rijks" -> RIJKS_MAX_NEW_ARTWORKS
      [] f = "nga"   -> NGA_MAX_NEW_ARTWORKS

\* metfetch runs from the repository root, the others from scripts/:
\* "public/artworkids.json" and "../public/artworkids.json" are one file.
ARTWORKIDS_FILE(f) == "public/artworkids.json"

TEMP_NEWIDS_FILE(f) ==
    IF f = "nga" THEN "scripts/artworkids.json" ELSE "public/artworkids.json"

DONTFETCH_FILE(f) ==
    CASE f = "met"   -> "scripts/metdontfetch.json"
      [] f = "chic"  -> "scripts/chicdontfetch.json"
      [] f = "rijks" -> "scripts/rijksdontfetch.json"
      [] f = "nga"   -> "scripts/ngadontfetch.json"

Paths == {"public/artworkids.json", "scripts/artworkids.json"}
            \cup {DONTFETCH_FILE(f) : f \in Fetchers}

\* The Met and ARTIC APIs identify artworks by integers, Rijksmuseum and the
\* NGA data by strings.
NumericApi(f) == f \in {"met", "chic"}

\* integer IDs the APIs can return; they straddle a power of ten so that
\* numeric and string order differ
ApiInts == 9 .. (8 + MaxIds)
IdStrs == {IntToStr(n) : n \in ApiInts}
\* a Rijksmuseum object number such as "SK" (not a digit string)
RijksId == <<83, 75>>

\* str(object_id): the file stem and the artworkids.json entry of an artwork
StrOf(f, id) == IF NumericApi(f) THEN IntToStr(id) ELSE id

\* ------------------------------------------------------------------------
\* File loaders
\* ------------------------------------------------------------------------
\* MetDownloader.load_existing_ids keeps the numeric IDs only; the other
\* three keep every entry.  An unreadable file gives the empty set.
load_existing_ids(f, fs, bad) ==
    IF ARTWORKIDS_FILE(f) \in bad THEN {}
    ELSE IF f = "met"
         THEN {s \in Range(fs[ARTWORKIDS_FILE(f)]) : IsDigit(s)}
         ELSE Range(fs[ARTWORKIDS_FILE(f)])

load_blacklist(f, fs, bad) ==
    IF DONTFETCH_FILE(f) \in bad THEN {} ELSE Range(fs[DONTFETCH_FILE(f)])

\* sorted order add_to_blacklist writes the list in
BlacklistSorted(f, S) ==
    CASE f = "met"   -> SortedByInt(S)
      [] f = "chic"  -> IF \A s \in S : IsDigit(s) THEN SortedByInt(S) ELSE SortedStrs(S)
      [] f = "rijks" -> SortedStrs(S)
      [] f = "nga"   -> IF \A s \in S : IsDigit(s) THEN SortedByInt(S) ELSE SortedStrs(S)

\* add_to_blacklist(object_id, reason): the files, the unreadable paths and
\* newly_blacklisted after the call.  metfetch gives up on an unreadable
\* list (json.load raises inside the outer try); the others start from [].
\* A sort key that raises (a non-numeric entry under key=int) leaves the
\* file as it was.
add_to_blacklist(f, id, reason, fs, bad, newly) ==
    LET path    == DONTFETCH_FILE(f)
        id_str  == StrOf(f, id)
        current == IF path \in bad THEN <<>> ELSE fs[path]
        all_ids == Range(current) \cup {id_str}
        sortable == \/ f \in {"chic", "rijks"}
                    \/ \A s \in all_ids : IsDigit(s)
                    \/ f = "nga" /\ \A s \in all_ids : ~IsDigit(s)
        same    == [files |-> fs, unreadable |-> bad, newly_blacklisted |-> newly]
    IN  IF f = "met" /\ path \in bad THEN same
        ELSE IF id_str \in Range(current) THEN same
        ELSE IF ~sortable THEN same
        ELSE [files |-> [fs EXCEPT ![path] =
                             BlacklistSorted(f, all_ids)],
              unreadable |-> bad \ {path},
              newly_blacklisted |->
                  Append(newly, [objectID |-> id, reason |-> reason])]

\* ------------------------------------------------------------------------
\* compare_and_report (inlined in RijksDownloader.run)
\* ------------------------------------------------------------------------
\* mutant of compare_and_report: the blacklist is not subtracted
compare_ignoring_blacklist(f, api, existing, blacklist, not_pd) ==
    IF NumericApi(f)
    THEN SortedInts({StrToInt(s) : s \in {IntToStr(i) : i \in api} \ existing})
    ELSE IF f = "rijks"
    THEN SortedStrs(api \ existing)
    ELSE SortedByInt((api \ existing) \ not_pd)

compare_and_report(f, api, existing, blacklist, not_pd) ==
    IF NumericApi(f)
    THEN LET api_ids_str == {IntToStr(i) : i \in api}
             new_ids_str == (api_ids_str \ existing) \ blacklist
         IN  SortedInts({StrToInt(s) : s \in new_ids_str})
    ELSE IF f = "rijks"
    THEN SortedStrs((api \ existing) \ blacklist)
    ELSE SortedByInt(((api \ existing) \ blacklist) \ not_pd)

\* ------------------------------------------------------------------------
\* Responses of the outside world
\* ------------------------------------------------------------------------
\* Answer of the artwork detail endpoint.  status 0 stands for a network
\* error (timeout, connection error).  For status 200, pd says the record is
\* public domain (Met isPublicDomain, ARTIC is_public_domain, Rijks: no
\* copyrightHolder) and img that it names an image (primaryImageSmall,
\* image_id, webImage.url).
DetailResponses ==
    {[status |-> 200, pd |-> p, img |-> i] : p \in BOOLEAN, i \in BOOLEAN}
      \cup {[status |-> c, pd |-> FALSE, img |-> FALSE] : c \in {404, 502, 500, 0}}

NoData == [status |-> 0, pd |-> FALSE, img |-> FALSE]

\* Answer of the nga.gov object page (status 0: timeout or other exception);
\* neg / pos: the lower-cased text contains a negative / a positive phrase.
PageResponses ==
    {[status |-> 200, neg |-> n, pos |-> q] : n \in BOOLEAN, q \in BOOLEAN}
      \cup {[status |-> c, neg |-> FALSE, pos |-> FALSE] : c \in {404, 500, 0}}

\* Status of the HEAD request on the IIIF image (0: the request raised)
HeadResponses == {200, 403, 0}

\* ------------------------------------------------------------------------
\* NGADownloader.is_public_domain
\* ------------------------------------------------------------------------
\* Result and the two caches after is_public_domain(id, uuid), given the
\* object page answer and the IIIF HEAD answer.
is_public_domain(id, has_uuid, objpage, head, pd_ids, not_pd_ids) ==
    LET found_not_pd == objpage.status = 200 /\ objpage.neg
        found_pd     == objpage.status = 200 /\ ~objpage.neg /\ objpage.pos
        yes == [result |-> TRUE,  pd |-> pd_ids \cup {id}, not_pd |-> not_pd_ids]
        no  == [result |-> FALSE, pd |-> pd_ids, not_pd |-> not_pd_ids \cup {id}]
    IN  IF id \in pd_ids THEN [result |-> TRUE, pd |-> pd_ids, not_pd |-> not_pd_ids]
        ELSE IF id \in not_pd_ids
             THEN [result |-> FALSE, pd |-> pd_ids, not_pd |-> not_pd_ids]
        ELSE IF found_not_pd THEN no
        ELSE IF found_pd /\ has_uuid
             THEN (IF head = 200 THEN yes ELSE no)
        ELSE IF found_pd THEN yes
        ELSE no

\* ------------------------------------------------------------------------
\* Initial state: a fetcher object just constructed, the files as earlier
\* runs left them
\* ------------------------------------------------------------------------
\* contents artworkids.json can have: any of the API's IDs, possibly with a
\* Rijksmuseum object number among them
ArtworkidsContents ==
    {SortedByInt(S) : S \in SUBSET IdStrs}
      \cup {<<RijksId>> \o SortedByInt(S) : S \in SUBSET IdStrs}

DontfetchContents == {SortedByInt(S) : S \in SUBSET IdStrs}

InitRun ==
    /\ fetcher \in Fetchers
    /\ pc = "start"
    /\ \E ids \in ArtworkidsContents, bl \in DontfetchContents,
          tmp \in DontfetchContents :
         \E bad \in SUBSET {ARTWORKIDS_FILE(fetcher), DONTFETCH_FILE(fetcher)} :
           /\ ARTWORKIDS_FILE(fetcher) \in bad => ids = <<>>
           /\ DONTFETCH_FILE(fetcher) \in bad => bl = <<>>
           /\ TEMP_NEWIDS_FILE(fetcher) = ARTWORKIDS_FILE(fetcher) => tmp = <<>>
           /\ start_newids = IF fetcher = "nga" THEN Range(tmp) ELSE Range(ids)
           /\ files = [p \in Paths |->
                         IF p = ARTWORKIDS_FILE(fetcher) THEN ids
                         ELSE IF p = DONTFETCH_FILE(fetcher) THEN bl
                         ELSE IF p = TEMP_NEWIDS_FILE(fetcher) THEN tmp
                         ELSE <<>>]
           /\ unreadable = bad
           /\ start_ids = Range(ids)
           /\ start_blacklist = Range(bl)
    /\ existing_ids = {}
    /\ blacklist_ids = {}
    /\ api_ids = {}
    /\ new_ids = <<>>
    /\ to_download = <<>>
    /\ idx = 1
    /\ object_id = <<>>
    /\ artwork_data = NoData
    /\ verified_public_domain = FALSE
    /\ local_image_filename = <<>>
    /\ images = {}
    /\ metadata_files = {}
    /\ failed_downloads = <<>>
    /\ successful_downloads = <<>>
    /\ downloaded_count = 0
    /\ newly_blacklisted = <<>>
    /\ IF fetcher = "nga"
       THEN \E pd \in SUBSET IdStrs, npd \in SUBSET IdStrs :
              /\ pd \cap npd = {}
              /\ public_domain_ids = pd
              /\ not_public_domain_ids = npd
       ELSE public_domain_ids = {} /\ not_public_domain_ids = {}
    /\ calls = <<>>
    /\ rejected = {}
    /\ writes = <<>>
    /\ answers = <<>>

\* ------------------------------------------------------------------------
\* run(): load the two lists, search, compare, slice
\* ------------------------------------------------------------------------
\* what fetch_available_artworks can return (its duplicates and order are
\* dropped by the set conversion in compare_and_report)
SearchResults(f) ==
    IF NumericApi(f) THEN SUBSET ApiInts
    ELSE IF f = "rijks" THEN SUBSET (IdStrs \cup {RijksId})
    ELSE SUBSET IdStrs

RunStart ==
    /\ pc = "start"
    /\ existing_ids' = load_existing_ids(fetcher, files, unreadable)
    /\ blacklist_ids' = load_blacklist(fetcher, files, unreadable)
    /\ \E api \in SearchResults(fetcher) :
         LET found == compare_and_report(fetcher, api, existing_ids',
                                         blacklist_ids', not_public_domain_ids)
         IN  /\ api_ids' = api
             /\ new_ids' = IF api = {} THEN <<>> ELSE found
             /\ to_download' = Take(new_ids', MAX_NEW_ARTWORKS(fetcher))
             /\ pc' = IF new_ids' = <<>> THEN "done" ELSE "loop"
    /\ UNCHANGED <<fetcher, files, unreadable, idx, object_id, artwork_data,
                   verified_public_domain, local_image_filename, images,
                   metadata_files, failed_downloads, successful_downloads,
                   downloaded_count, newly_blacklisted, public_domain_ids,
                   not_public_domain_ids, calls, start_ids, start_blacklist,
                   start_newids,
                   rejected, writes>>
    /\ UNCHANGED answers

\* for idx, object_id in enumerate(to_download, 1): self.process_artwork(object_id)
LoopNext ==
    /\ pc = "loop"
    /\ idx <= Len(to_download)
    /\ object_id' = to_download[idx]
    /\ idx' = idx + 1
    /\ calls' = Append(calls, to_download[idx])
    /\ artwork_data' = NoData
    /\ verified_public_domain' = FALSE
    /\ local_image_filename' = <<>>
    /\ pc' = "fetch"
    /\ UNCHANGED <<fetcher, files, unreadable, existing_ids, blacklist_ids, api_ids,
                   new_ids, to_download, images, metadata_files, failed_downloads,
                   successful_downloads, downloaded_count, newly_blacklisted,
                   public_domain_ids, not_public_domain_ids, start_ids,
                   start_blacklist, start_newids, rejected, writes>>
    /\ UNCHANGED answers

\* the loop is exhausted: print_summary and return
PrintSummary ==
    /\ pc = "loop"
    /\ idx > Len(to_download)
    /\ pc' = "done"
    /\ UNCHANGED <<fetcher, files, unreadable, existing_ids, blacklist_ids, api_ids,
                   new_ids, to_download, idx, object_id, artwork_data,
                   verified_public_domain, local_image_filename, images,
                   metadata_files, failed_downloads, successful_downloads,
                   downloaded_count, newly_blacklisted, public_domain_ids,
                   not_public_domain_ids, calls, start_ids, start_blacklist,
                   start_newids,
                   rejected, writes>>
    /\ UNCHANGED answers

\* ------------------------------------------------------------------------
\* process_artwork, step 1: the metadata
\* ------------------------------------------------------------------------
\* Outcome of the metadata fetch for one detail response: ok, the record
\* handed on (pd is the value format_metadata writes as isPublicDomain) and
\* the blacklisting reason ("" when the ID is not blacklisted).
Rejected(reason) == [ok |-> FALSE, data |-> NoData, blacklist |-> reason]
Accepted(pd) ==
    [ok |-> TRUE, data |-> [status |-> 200, pd |-> pd, img |-> TRUE], blacklist |-> ""]

\* metfetch blacklisting on every failed request
MetFetchBlacklistingAnyError(resp) ==
    IF resp.status = 200
    THEN IF ~resp.pd THEN Rejected("Not public domain")
         ELSE IF ~resp.img THEN Rejected("No image available")
         ELSE Accepted(resp.pd)
    ELSE Rejected("HTTP Error on fetch")

MetFetchArtworkMetadata(resp) ==
    IF resp.status = 200
    THEN IF ~resp.pd THEN Rejected("Not public domain")
         ELSE IF ~resp.img THEN Rejected("No image available")
         ELSE Accepted(resp.pd)
    ELSE IF resp.status \in {404, 502} THEN Rejected("HTTP Error on fetch")
    ELSE Rejected("")

ChicFetchArtworkMetadata(resp) ==
    IF resp.status = 200
    THEN IF ~resp.img THEN Rejected("No image_id (search filter mismatch)")
         ELSE Accepted(resp.pd)
    ELSE IF resp.status \in {404, 502} THEN Rejected("HTTP status")
    ELSE Rejected("")

RijksFetchMetadata(resp) ==
    IF resp.status = 200
    THEN LET has_image        == resp.img
             no_copyright     == resp.pd
             is_pd            == has_image /\ no_copyright
         IN  IF ~has_image THEN Rejected("No webImage (search mismatch)")
             ELSE IF ~is_pd THEN Rejected("Not Public Domain")
             ELSE Accepted(is_pd)
    ELSE IF resp.status \in {404, 502} THEN Rejected("HTTP status")
    ELSE Rejected("")

fetch_artwork_metadata(f, resp) ==
    CASE f = "met"   -> MetFetchArtworkMetadata(resp)
      [] f = "chic"  -> ChicFetchArtworkMetadata(resp)
      [] f = "rijks" -> RijksFetchMetadata(resp)

\* self.failed_downloads.append({...}); return False
Fail(reason) ==
    /\ failed_downloads' =
           Append(failed_downloads, [objectID |-> object_id, reason |-> reason])
    /\ pc' = "loop"

FetchMetadata ==
    /\ pc = "fetch"
    /\ fetcher # "nga"
    /\ \E resp \in DetailResponses :
         LET r == fetch_artwork_metadata(fetcher, resp)
             b == IF r.blacklist # ""
                  THEN add_to_blacklist(fetcher, object_id, r.blacklist, files,
                                        unreadable, newly_blacklisted)
                  ELSE [files |-> files, unreadable |-> unreadable,
                        newly_blacklisted |-> newly_blacklisted]
         IN  /\ files' = b.files
             /\ unreadable' = b.unreadable
             /\ newly_blacklisted' = b.newly_blacklisted
             /\ artwork_data' = r.data
             /\ answers' = Append(answers,
                                  [id |-> object_id, resp |-> resp,
                                   blacklisted |-> b.files # files])
             /\ IF r.ok
                THEN pc' = "download" /\ UNCHANGED failed_downloads
                ELSE Fail("Failed to fetch metadata")
    /\ UNCHANGED <<fetcher, existing_ids, blacklist_ids, api_ids, new_ids,
                   to_download, idx, object_id, verified_public_domain,
                   local_image_filename, images, metadata_files,
                   successful_downloads, downloaded_count, public_domain_ids,
                   not_public_domain_ids, calls, start_ids, start_blacklist,
                   start_newids,
                   rejected, writes>>

\* NGADownloader.get_artwork_metadata: the row of the loaded CSV data.  The
\* IDs offered by fetch_available_artworks are those in objects_data that
\* have an image mapping.
GetArtworkMetadata ==
    /\ pc = "fetch"
    /\ fetcher = "nga"
    /\ IF object_id \in api_ids
       THEN /\ artwork_data' = [status |-> 200, pd |-> FALSE, img |-> TRUE]
            /\ pc' = "verify"
            /\ UNCHANGED failed_downloads
       ELSE /\ artwork_data' = NoData
            /\ Fail("Failed to get metadata or blacklisted")
    /\ UNCHANGED <<fetcher, files, unreadable, existing_ids, blacklist_ids, api_ids,
                   new_ids, to_download, idx, object_id, verified_public_domain,
                   local_image_filename, images, metadata_files,
                   successful_downloads, downloaded_count, newly_blacklisted,
                   public_domain_ids, not_public_domain_ids, calls, start_ids,
                   start_blacklist, start_newids, rejected, writes>>
    /\ UNCHANGED answers

\* mutant of VerifyPublicDomain: the result of the check is not tested
VerifyPublicDomainUntested ==
    /\ pc = "verify"
    /\ \E objpage \in PageResponses, head \in HeadResponses :
         LET r == is_public_domain(object_id, TRUE, objpage, head,
                                   public_domain_ids, not_public_domain_ids)
             b == add_to_blacklist(fetcher, object_id,
                                   "Not verified as public domain on nga.gov website",
                                   files, unreadable, newly_blacklisted)
         IN  /\ public_domain_ids' = r.pd
             /\ not_public_domain_ids' = r.not_pd
             /\ verified_public_domain' = r.result
             /\ IF r.result \/ TRUE
                THEN /\ pc' = "download"
                     /\ UNCHANGED <<files, unreadable, newly_blacklisted,
                                    failed_downloads, rejected>>
                ELSE /\ files' = b.files
                     /\ unreadable' = b.unreadable
                     /\ newly_blacklisted' = b.newly_blacklisted
                     /\ rejected' = rejected \cup {object_id}
                     /\ Fail("Not verified as public domain on nga.gov website")
    /\ UNCHANGED <<fetcher, existing_ids, blacklist_ids, api_ids, new_ids,
                   to_download, idx, object_id, artwork_data, local_image_filename,
                   images, metadata_files, successful_downloads, downloaded_count,
                   calls, start_ids, start_blacklist, start_newids,
                   writes>>
    /\ UNCHANGED answers

\* ngafetch process_artwork: the public-domain check comes before any download
VerifyPublicDomain ==
    /\ pc = "verify"
    /\ \E objpage \in PageResponses, head \in HeadResponses :
         LET r == is_public_domain(object_id, TRUE, objpage, head,
                                   public_domain_ids, not_public_domain_ids)
             b == add_to_blacklist(fetcher, object_id,
                                   "Not verified as public domain on nga.gov website",
                                   files, unreadable, newly_blacklisted)
         IN  /\ public_domain_ids' = r.pd
             /\ not_public_domain_ids' = r.not_pd
             /\ verified_public_domain' = r.result
             /\ IF r.result
                THEN /\ pc' = "download"
                     /\ UNCHANGED <<files, unreadable, newly_blacklisted,
                                    failed_downloads, rejected>>
                ELSE /\ files' = b.files
                     /\ unreadable' = b.unreadable
                     /\ newly_blacklisted' = b.newly_blacklisted
                     /\ rejected' = rejected \cup {object_id}
                     /\ Fail("Not verified as public domain on nga.gov website")
    /\ UNCHANGED <<fetcher, existing_ids, blacklist_ids, api_ids, new_ids,
                   to_download, idx, object_id, artwork_data, local_image_filename,
                   images, metadata_files, successful_downloads, downloaded_count,
                   calls, start_ids, start_blacklist, start_newids,
                   writes>>
    /\ UNCHANGED answers

\* ------------------------------------------------------------------------
\* process_artwork, steps 2-4: image, metadata file, artworkids.json
\* ------------------------------------------------------------------------
JPG == <<46, 106, 112, 103>>
PNG == <<46, 112, 110, 103>>

\* extensions download_image can choose (chicfetch always writes .jpg)
Extensions(f) == IF f = "chic" THEN {JPG} ELSE {JPG, PNG}

\* the image file of an artwork, whatever its extension
ImageOf(stem) == {stem \o JPG, stem \o PNG}

\* download_image: returns the file name, or None (here <<>>) when the
\* request fails; the file is written only on success
DownloadImage ==
    /\ pc = "download"
    /\ \E ok \in BOOLEAN, ext \in Extensions(fetcher) :
         IF ok
         THEN /\ local_image_filename' = StrOf(fetcher, object_id) \o ext
              /\ images' = images \cup {StrOf(fetcher, object_id) \o ext}
              /\ writes' = Append(writes, [op |-> "image",
                                            id |-> StrOf(fetcher, object_id)])
              /\ pc' = "save"
              /\ UNCHANGED failed_downloads
         ELSE /\ local_image_filename' = <<>>
              /\ UNCHANGED <<images, writes>>
              /\ Fail("Failed to download image")
    /\ UNCHANGED <<fetcher, files, unreadable, existing_ids, blacklist_ids, api_ids,
                   new_ids, to_download, idx, object_id, artwork_data,
                   verified_public_domain, metadata_files, successful_downloads,
                   downloaded_count, newly_blacklisted, public_domain_ids,
                   not_public_domain_ids, calls, start_ids, start_blacklist,
                   start_newids,
                   rejected>>
    /\ UNCHANGED answers

\* format_metadata: the fields of the metadata file the checks read.
\* metfetch, chicfetch and rijksfetch copy isPublicDomain from the fetched
\* record, ngafetch writes the verification result.
format_metadata(f, id, data, filename, verified) ==
    [objectID       |-> StrOf(f, id),
     isPublicDomain |-> IF f = "nga" THEN verified ELSE data.pd,
     localImage     |-> filename]

\* mutant of SaveMetadata: a failed save does not stop the call
SaveMetadataUnchecked ==
    /\ pc = "save"
    /\ \E ok \in BOOLEAN :
         IF ok
         THEN /\ metadata_files' = metadata_files \cup
                    {format_metadata(fetcher, object_id, artwork_data,
                                     local_image_filename, verified_public_domain)}
              /\ writes' = Append(writes, [op |-> "metadata",
                                            id |-> StrOf(fetcher, object_id)])
              /\ pc' = "append"
              /\ UNCHANGED failed_downloads
         ELSE /\ UNCHANGED <<metadata_files, writes, failed_downloads>>
              /\ pc' = "append"
    /\ UNCHANGED <<fetcher, files, unreadable, existing_ids, blacklist_ids, api_ids,
                   new_ids, to_download, idx, object_id, artwork_data,
                   verified_public_domain, local_image_filename, images,
                   successful_downloads, downloaded_count, newly_blacklisted,
                   public_domain_ids, not_public_domain_ids, calls, start_ids,
                   start_blacklist, start_newids, rejected>>
    /\ UNCHANGED answers

\* save_metadata: writes METADATA_OUTPUT_DIR/<object_id>.json, False on error
SaveMetadata ==
    /\ pc = "save"
    /\ \E ok \in BOOLEAN :
         IF ok
         THEN /\ metadata_files' = metadata_files \cup
                    {format_metadata(fetcher, object_id, artwork_data,
                                     local_image_filename, verified_public_domain)}
              /\ writes' = Append(writes, [op |-> "metadata",
                                            id |-> StrOf(fetcher, object_id)])
              /\ pc' = "append"
              /\ UNCHANGED failed_downloads
         ELSE /\ UNCHANGED <<metadata_files, writes>>
              /\ Fail("Failed to save metadata")
    /\ UNCHANGED <<fetcher, files, unreadable, existing_ids, blacklist_ids, api_ids,
                   new_ids, to_download, idx, object_id, artwork_data,
                   verified_public_domain, local_image_filename, images,
                   successful_downloads, downloaded_count, newly_blacklisted,
                   public_domain_ids, not_public_domain_ids, calls, start_ids,
                   start_blacklist, start_newids, rejected>>
    /\ UNCHANGED answers

\* append_to_artworkids: read the list, append str(object_id), write it back.
\* metfetch fails on an unreadable list; the others restart it from [].
\* rijksfetch and ngafetch skip the write when the ID is already listed.
append_to_artworkids(f, id, fs, bad, write_ok) ==
    LET path   == TEMP_NEWIDS_FILE(f)
        ids    == IF path \in bad THEN <<>> ELSE fs[path]
        id_str == StrOf(f, id)
        failed == [ok |-> FALSE, files |-> fs, unreadable |-> bad]
    IN  IF f = "met" /\ path \in bad THEN failed
        ELSE IF f \in {"rijks", "nga"} /\ id_str \in Range(ids)
             THEN [ok |-> TRUE, files |-> fs, unreadable |-> bad]
        ELSE IF ~write_ok THEN failed
        ELSE [ok |-> TRUE,
              files |-> [fs EXCEPT ![path] = Append(ids, id_str)],
              unreadable |-> bad \ {path}]

AppendToArtworkids ==
    /\ pc = "append"
    /\ \E write_ok \in BOOLEAN :
         LET r == append_to_artworkids(fetcher, object_id, files, unreadable, write_ok)
         IN  /\ files' = r.files
             /\ unreadable' = r.unreadable
             /\ writes' = IF r.files # files
                           THEN Append(writes, [op |-> "artworkids",
                                                id |-> StrOf(fetcher, object_id)])
                           ELSE writes
             /\ IF r.ok
                THEN /\ successful_downloads' =
                            Append(successful_downloads, [objectID |-> object_id])
                     /\ downloaded_count' = downloaded_count + 1
                     /\ pc' = "loop"
                     /\ UNCHANGED failed_downloads
                ELSE /\ UNCHANGED <<successful_downloads, downloaded_count>>
                     /\ Fail("Failed to update artworkids.json")
    /\ UNCHANGED <<fetcher, existing_ids, blacklist_ids, api_ids, new_ids,
                   to_download, idx, object_id, artwork_data,
                   verified_public_domain, local_image_filename, images,
                   metadata_files, newly_blacklisted, public_domain_ids,
                   not_public_domain_ids, calls, start_ids, start_blacklist,
                   start_newids,
                   rejected>>
    /\ UNCHANGED answers

\* ------------------------------------------------------------------------
\* Search pagination: fetch_available_artworks of chicfetch and rijksfetch
\* ------------------------------------------------------------------------
SEARCH_PAGE_LIMIT == 100
CHIC_MAX_SEARCH_PAGES == 10
RIJKS_MAX_SEARCH_PAGES == 100
MAX_SEARCH_RESULTS_CAP == 5000

MAX_SEARCH_PAGES(f) ==
    IF f = "chic" THEN CHIC_MAX_SEARCH_PAGES ELSE RIJKS_MAX_SEARCH_PAGES

\* Sizes of one page of results: objects is the number of hits / artObjects,
\* ids the number of them that yield an ID (a hit with an 'id', an artObject
\* with a webImage).  The server returns at most the requested page limit.
PageSizes ==
    {[objects |-> 0, ids |-> 0],
     [objects |-> SEARCH_PAGE_LIMIT \div 2, ids |-> SEARCH_PAGE_LIMIT \div 2],
     [objects |-> SEARCH_PAGE_LIMIT, ids |-> 0],
     [objects |-> SEARCH_PAGE_LIMIT, ids |-> SEARCH_PAGE_LIMIT - 1],
     [objects |-> SEARCH_PAGE_LIMIT, ids |-> SEARCH_PAGE_LIMIT]}

\* The pagination block of an ARTIC answer: absent, or current_page and
\* total_pages as the server states them (it need not tell the truth).
Paginations(p) ==
    {[present |-> FALSE, current_page |-> 0, total_pages |-> 0]}
      \cup {[present |-> TRUE, current_page |-> c, total_pages |-> t] :
               c \in {1, p}, t \in {1, p + 1}}

\* Answers to one search request.  status 0 is a network error; json says
\* whether the body parses.
SearchResponses(p) ==
    {[status |-> 200, json |-> TRUE, size |-> z, pagination |-> g] :
         z \in PageSizes, g \in Paginations(p)}
      \cup {[status |-> c, json |-> FALSE,
             size |-> [objects |-> 0, ids |-> 0],
             pagination |-> [present |-> FALSE, current_page |-> 0, total_pages |-> 0]] :
               c \in {200, 502, 500, 0}}

\* len(list(dict.fromkeys(all_ids))): between one and all of them are distinct
UniqueLens(n) == {n, Min(n, 1)}

\* chicfetch without its safety cap on pages
ChicNeverReachesMaxPages(fetched) == FALSE

\* chicfetch: the safety cap on pages, tested after each page
ChicReachedMaxPages(fetched) == fetched >= CHIC_MAX_SEARCH_PAGES

\* leave the loop and return the de-duplicated list
ReturnCollected(n) ==
    /\ search_pc' = "done"
    /\ returned_len' \in UniqueLens(n)

\* the except branches: return []
ReturnEmpty ==
    /\ search_pc' = "done"
    /\ returned_len' = 0

\* stop conditions of chicfetch after a page was added
ChicStops(resp, collected, fetched) ==
    \/ collected >= MAX_SEARCH_RESULTS_CAP
    \/ IF resp.pagination.present
       THEN resp.pagination.current_page >= resp.pagination.total_pages
       ELSE resp.size.ids < SEARCH_PAGE_LIMIT
    \/ ChicReachedMaxPages(fetched)

\* one iteration of ChicDownloader.fetch_available_artworks
ChicSearchPage ==
    /\ search_fetcher = "chic"
    /\ search_pc = "loop"
    /\ requests_made' = requests_made + 1
    /\ \E resp \in SearchResponses(page) :
         IF resp.status = 502
         THEN /\ ReturnCollected(all_ids_len)
              /\ UNCHANGED <<page, pages_fetched, all_ids_len>>
         ELSE IF resp.status # 200 \/ ~resp.json
         THEN /\ ReturnEmpty
              /\ UNCHANGED <<page, pages_fetched, all_ids_len>>
         ELSE /\ all_ids_len' = all_ids_len + resp.size.ids
              /\ pages_fetched' = pages_fetched + 1
              /\ IF ChicStops(resp, all_ids_len', pages_fetched')
                 THEN ReturnCollected(all_ids_len') /\ UNCHANGED page
                 ELSE page' = page + 1 /\ UNCHANGED <<search_pc, returned_len>>
    /\ UNCHANGED search_fetcher

\* stop conditions of rijksfetch after a page was added
RijksStops(resp, collected) ==
    \/ collected >= MAX_SEARCH_RESULTS_CAP
    \/ resp.size.objects < SEARCH_PAGE_LIMIT

\* one iteration of RijksDownloader.fetch_available_artworks
RijksSearchPage ==
    /\ search_fetcher = "rijks"
    /\ search_pc = "loop"
    /\ page <= RIJKS_MAX_SEARCH_PAGES
    /\ requests_made' = requests_made + 1
    /\ \E resp \in SearchResponses(page) :
         IF resp.status = 502 \/ (resp.status = 200 /\ ~resp.json)
         THEN /\ ReturnCollected(all_ids_len)
              /\ UNCHANGED <<page, pages_fetched, all_ids_len>>
         ELSE IF resp.status # 200
         THEN /\ ReturnEmpty
              /\ UNCHANGED <<page, pages_fetched, all_ids_len>>
         ELSE /\ all_ids_len' = all_ids_len + resp.size.ids
              /\ pages_fetched' = pages_fetched + 1
              /\ IF RijksStops(resp, all_ids_len')
                 THEN ReturnCollected(all_ids_len') /\ UNCHANGED page
                 ELSE page' = page + 1 /\ UNCHANGED <<search_pc, returned_len>>
    /\ UNCHANGED search_fetcher

\* rijksfetch: the loop condition page <= MAX_SEARCH_PAGES fails
RijksLoopExit ==
    /\ search_fetcher = "rijks"
    /\ search_pc = "loop"
    /\ ~(page <= RIJKS_MAX_SEARCH_PAGES)
    /\ ReturnCollected(all_ids_len)
    /\ UNCHANGED <<search_fetcher, page, pages_fetched, all_ids_len, requests_made>>

InitSearch ==
    /\ search_fetcher \in {"chic", "rijks"}
    /\ search_pc = "loop"
    /\ page = 1
    /\ pages_fetched = 0
    /\ all_ids_len = 0
    /\ requests_made = 0
    /\ returned_len = 0

\* ------------------------------------------------------------------------
\* autobot.py: main and check_media_status
\* ------------------------------------------------------------------------
MAX_RETRIES == 3
STATUS_CHECKS == 10

Unbound == "unbound"
NoCreation == "none"
OnlineArtworkIds == {"436535", "SK-A-1718"}
CreationIds == {"c1", "c2"}

\* What one HTTP call of the script can do: succeed, raise HTTPError whose
\* response text holds "The aspect ratio is not supported.", raise another
\* HTTPError, or raise something else (connection error, bad JSON, KeyError).
CallOutcomes == {"ok", "aspect", "http", "other"}

\* status_code values of a media container
StatusCodes == {"FINISHED", "ERROR", "IN_PROGRESS"}

\* main: the ACCESS_TOKEN / IG_USER_ID test before the loop
BotMain ==
    /\ bot_pc = "main"
    /\ \E secrets \in BOOLEAN :
         bot_pc' = IF secrets THEN "while" ELSE "end"
    /\ UNCHANGED <<retry_count, successful_post, bot_object_id, creation_id,
                   polls, attempts, status_true, published>>

\* the loop test: while retry_count < MAX_RETRIES and not successful_post
BotWhile ==
    /\ bot_pc = "while"
    /\ IF retry_count < MAX_RETRIES /\ ~successful_post
       THEN /\ bot_pc' = "pick"
            /\ attempts' = attempts + 1
       ELSE /\ bot_pc' = "end"
            /\ UNCHANGED attempts
    /\ UNCHANGED <<retry_count, successful_post, bot_object_id, creation_id,
                   polls, status_true, published>>

\* the two except clauses of main, entered with the exception e.  The
\* aspect-ratio branch formats object_id into its message before it counts
\* the retry: with object_id never assigned that raises UnboundLocalError
\* out of main.
HandleException(e) ==
    IF e = "aspect"
    THEN IF bot_object_id = Unbound
         THEN /\ bot_pc' = "crashed"
              /\ UNCHANGED <<retry_count, successful_post>>
         ELSE /\ retry_count' = retry_count + 1
              /\ bot_pc' = "while"
              /\ UNCHANGED successful_post
    ELSE /\ successful_post' = TRUE
         /\ bot_pc' = "while"
         /\ UNCHANGED retry_count

\* the else branch of "if check_media_status(creation_id)"
NotReady ==
    /\ retry_count' = retry_count + 1
    /\ bot_pc' = "while"
    /\ UNCHANGED successful_post

\* object_id = pick_random_artwork()
PickRandomArtwork ==
    /\ bot_pc = "pick"
    /\ \E e \in CallOutcomes :
         IF e = "ok"
         THEN /\ bot_object_id' \in OnlineArtworkIds
              /\ bot_pc' = "metadata"
              /\ UNCHANGED <<retry_count, successful_post>>
         ELSE HandleException(e) /\ UNCHANGED bot_object_id
    /\ UNCHANGED <<creation_id, polls, attempts, status_true, published>>

\* metadata = get_metadata(object_id); caption = format_caption(metadata)
GetMetadata ==
    /\ bot_pc = "metadata"
    /\ \E e \in CallOutcomes :
         IF e = "ok"
         THEN bot_pc' = "create" /\ UNCHANGED <<retry_count, successful_post>>
         ELSE HandleException(e)
    /\ UNCHANGED <<bot_object_id, creation_id, polls, attempts, status_true,
                   published>>

\* creation_id = create_media_container(image_url, caption)
CreateMediaContainer ==
    /\ bot_pc = "create"
    /\ \E e \in CallOutcomes :
         IF e = "ok"
         THEN /\ creation_id' \in CreationIds
              /\ polls' = 0
              /\ bot_pc' = "poll"
              /\ UNCHANGED <<retry_count, successful_post>>
         ELSE HandleException(e) /\ UNCHANGED <<creation_id, polls>>
    /\ UNCHANGED <<bot_object_id, attempts, status_true, published>>

\* main publishing whatever check_media_status returned
PublishRegardless(result) == "publish"

\* main: if check_media_status(creation_id): publish, else count a retry
BranchOnStatus(result) == IF result THEN "publish" ELSE "retry"

\* check_media_status returns result to main
StatusReturns(result) ==
    /\ status_true' = IF result
                      THEN status_true \cup {<<attempts, creation_id>>}
                      ELSE status_true
    /\ IF BranchOnStatus(result) = "publish"
       THEN bot_pc' = "publish" /\ UNCHANGED <<retry_count, successful_post>>
       ELSE NotReady

\* one iteration of the loop of check_media_status
CheckMediaStatus ==
    /\ bot_pc = "poll"
    /\ polls < STATUS_CHECKS
    /\ \E e \in CallOutcomes, status \in StatusCodes :
         IF e # "ok"
         THEN HandleException(e) /\ UNCHANGED <<polls, status_true>>
         ELSE IF status = "FINISHED"
         THEN StatusReturns(TRUE) /\ UNCHANGED polls
         ELSE IF status = "ERROR"
         THEN StatusReturns(FALSE) /\ UNCHANGED polls
         ELSE /\ polls' = polls + 1
              /\ IF polls' < STATUS_CHECKS
                 THEN UNCHANGED <<bot_pc, retry_count, successful_post, status_true>>
                 ELSE StatusReturns(FALSE)
    /\ UNCHANGED <<bot_object_id, creation_id, attempts, published>>

\* result = publish_media(creation_id); successful_post = True
PublishMedia ==
    /\ bot_pc = "publish"
    /\ published' = Append(published, <<attempts, creation_id>>)
    /\ \E e \in CallOutcomes :
         IF e = "ok"
         THEN /\ successful_post' = TRUE
              /\ bot_pc' = "while"
              /\ UNCHANGED retry_count
         ELSE HandleException(e)
    /\ UNCHANGED <<bot_object_id, creation_id, polls, attempts, status_true>>

InitBot ==
    /\ bot_pc = "main"
    /\ retry_count = 0
    /\ successful_post = FALSE
    /\ bot_object_id = Unbound
    /\ creation_id = NoCreation
    /\ polls = 0
    /\ attempts = 0
    /\ status_true = {}
    /\ published = <<>>

\* ------------------------------------------------------------------------
\* json_processor.py: prepend_credit_line and process_all_files
\* ------------------------------------------------------------------------
NumFiles == 2
MaxRuns == 2

\* Strings are sequences of characters.
PREFIX_TO_ADD ==
    <<"M","e","t","r","o","p","o","l","i","t","a","n"," ",
      "M","u","s","e","u","m"," ","o","f"," ","A","r","t","."," ">>

Whitespace == {" ", "\t", "\n"}

\* str.strip()
RECURSIVE LStrip(_)
LStrip(str) ==
    IF str # <<>> /\ Head(str) \in Whitespace THEN LStrip(Tail(str)) ELSE str

RECURSIVE RStrip(_)
RStrip(str) ==
    IF str # <<>> /\ str[Len(str)] \in Whitespace
    THEN RStrip(SubSeq(str, 1, Len(str) - 1))
    ELSE str

Strip(str) == RStrip(LStrip(str))

\* str.startswith(prefix)
StartsWith(str, prefix) ==
    /\ Len(str) >= Len(prefix)
    /\ SubSeq(str, 1, Len(prefix)) = prefix

Gift == <<"G","i","f","t">>

\* creditLine texts found in metadata files
CreditLines ==
    {<<>>,
     <<" ">>,
     <<"\n", " ">>,
     Gift,
     <<" ">> \o Gift \o <<" ">>,
     PREFIX_TO_ADD \o Gift,
     <<" ">> \o PREFIX_TO_ADD \o Gift,
     RStrip(PREFIX_TO_ADD)}

\* A metadata file: unreadable (missing or not JSON), or JSON whose
\* creditLine is a string, is something else, or is absent.
Unreadable == [kind |-> "unreadable", creditLine |-> <<>>]
JsonFiles ==
    {[kind |-> "str", creditLine |-> c] : c \in CreditLines}
      \cup {[kind |-> "other", creditLine |-> <<>>],
            [kind |-> "absent", creditLine |-> <<>>],
            Unreadable}

\* What writing the file back can do: succeed, fail in open() with the file
\* untouched, or fail in json.dump with the file truncated.
WriteOutcomes == {"ok", "open_fails", "dump_fails"}

\* prepend_credit_line(file_path, prefix) on a file holding data: the status
\* returned and the file afterwards
prepend_credit_line(data, prefix, write) ==
    IF data.kind = "unreadable"
    THEN [status |-> "ERROR", file |-> data]
    ELSE IF data.kind = "str"
    THEN LET current_credit_line == Strip(data.creditLine)
         IN  IF StartsWith(current_credit_line, prefix)
             THEN [status |-> "SKIP", file |-> data]
             ELSE IF write = "ok"
             THEN [status |-> "SUCCESS",
                   file |-> [kind |-> "str",
                             creditLine |-> prefix \o current_credit_line]]
             ELSE IF write = "open_fails"
             THEN [status |-> "ERROR", file |-> data]
             ELSE [status |-> "ERROR", file |-> Unreadable]
    ELSE [status |-> "FAIL", file |-> data]

NoResult == "-"

\* process_all_files: one iteration of the loop over json_files
ProcessFile ==
    /\ credit_pc = "files"
    /\ file_i <= NumFiles
    /\ \E write \in WriteOutcomes :
         LET result == prepend_credit_line(json_files[file_i], PREFIX_TO_ADD, write)
         IN  /\ json_files' = [json_files EXCEPT ![file_i] = result.file]
             /\ results' = [results EXCEPT ![run_no][file_i] = result.status]
             /\ after' = [after EXCEPT ![run_no][file_i] = result.file]
    /\ file_i' = file_i + 1
    /\ UNCHANGED <<credit_pc, run_no>>

\* process_all_files: the loop over json_files is exhausted
ProcessingComplete ==
    /\ credit_pc = "files"
    /\ file_i > NumFiles
    /\ credit_pc' = "end"
    /\ UNCHANGED <<json_files, file_i, run_no, results, after>>

\* the script is run again on the same directory
RunAgain ==
    /\ credit_pc = "end"
    /\ run_no < MaxRuns
    /\ run_no' = run_no + 1
    /\ file_i' = 1
    /\ credit_pc' = "files"
    /\ UNCHANGED <<json_files, results, after>>

InitCredit ==
    /\ json_files \in [1 .. NumFiles -> JsonFiles]
    /\ credit_pc = "files"
    /\ file_i = 1
    /\ run_no = 1
    /\ results = [r \in 1 .. MaxRuns |-> [f \in 1 .. NumFiles |-> NoResult]]
    /\ after = [r \in 1 .. MaxRuns |-> [f \in 1 .. NumFiles |-> Unreadable]]

\* ------------------------------------------------------------------------
\* deploycheck.py
\* ------------------------------------------------------------------------
MaxListed == 2
MaxBadFields == 1

DeployIds == {"436535", "SK-A-1718"}

required_fields == <<"objectID", "title", "localImage", "isPublicDomain", "objectURL">>
RequiredFields == Range(required_fields)

\* A field of a metadata object: absent, JSON null, the empty string, a
\* falsy value that is neither (false, 0, []), or any other value.
FieldValues == {"absent", "null", "empty", "falsy", "value"}

NoFields == [f \in RequiredFields |-> "absent"]

\* metadata objects in which at most MaxBadFields fields are not plain values
MetadataObjects ==
    {d \in [RequiredFields -> FieldValues] :
        Cardinality({f \in RequiredFields : d[f] # "value"}) <= MaxBadFields}

\* public/metadata/<id>.json and the image its localImage names:
\*   missing     the file does not exist
\*   invalid     json.load raises JSONDecodeError
\*   unreadable  open or read raises another exception (a directory, no
\*               permission, bytes that are not UTF-8)
\*   scalar      the JSON text is null, a number or a boolean
\*   list        the JSON text is a list without the field names
\*   object      a JSON object
DeployFiles ==
    {[kind |-> "object", fields |-> d, image_exists |-> e] :
         d \in MetadataObjects, e \in BOOLEAN}
      \cup {[kind |-> k, fields |-> NoFields, image_exists |-> FALSE] :
               k \in {"missing", "invalid", "unreadable", "scalar", "list"}}

\* field not in data or data[field] in (None, '')
FieldMissing(data, field) == data.fields[field] \in {"absent", "null", "empty"}

\* the entries the loop over required_fields appends to missing_fields
RECURSIVE MissingFieldsOf(_, _, _)
MissingFieldsOf(obj_id, data, k) ==
    IF k > Len(required_fields) THEN <<>>
    ELSE (IF FieldMissing(data, required_fields[k])
          THEN <<[objectID |-> obj_id, field |-> required_fields[k]]>>
          ELSE <<>>) \o MissingFieldsOf(obj_id, data, k + 1)

\* 'localImage' in data and data['localImage']
HasLocalImage(data) == data.fields["localImage"] = "value"

JsonPath(obj_id) == <<"public/metadata", obj_id>>
ImagePath(obj_id) == <<"public/images", obj_id>>

\* one iteration of the validation loop
ValidateId ==
    /\ dep_pc = "loop"
    /\ dep_i <= Len(object_ids)
    /\ LET obj_id == object_ids[dep_i]
           data == dep_files[obj_id]
           absent == MissingFieldsOf(obj_id, data, 1)
           no_image == HasLocalImage(data) /\ ~data.image_exists
       IN  IF data.kind = "missing"
           THEN /\ missing_json' = Append(missing_json, obj_id)
                /\ errored_files' = errored_files \cup {JsonPath(obj_id)}
                /\ UNCHANGED <<invalid_json, missing_fields, missing_images>>
           ELSE IF data.kind = "invalid"
           THEN /\ invalid_json' = Append(invalid_json, obj_id)
                /\ errored_files' = errored_files \cup {JsonPath(obj_id)}
                /\ UNCHANGED <<missing_json, missing_fields, missing_images>>
           ELSE IF data.kind \in {"unreadable", "scalar"}
           THEN /\ errored_files' = errored_files \cup {JsonPath(obj_id)}
                /\ UNCHANGED <<missing_json, invalid_json, missing_fields,
                               missing_images>>
           ELSE /\ missing_fields' = missing_fields \o absent
                /\ missing_images' = IF no_image
                                     THEN Append(missing_images, obj_id)
                                     ELSE missing_images
                /\ errored_files' =
                       errored_files
                         \cup (IF absent # <<>> THEN {JsonPath(obj_id)} ELSE {})
                         \cup (IF no_image THEN {ImagePath(obj_id)} ELSE {})
                /\ UNCHANGED <<missing_json, invalid_json>>
    /\ dep_i' = dep_i + 1
    /\ UNCHANGED <<object_ids, dep_files, dep_pc, extra_metadata, total_issues,
                   verdict>>

\* the reverse check and the validation summary, after the loop
ValidationResults ==
    /\ dep_pc = "loop"
    /\ dep_i > Len(object_ids)
    /\ extra_metadata' = {id \in DeployIds : dep_files[id].kind # "missing"
                                              /\ id \notin Range(object_ids)}
    /\ total_issues' = Len(missing_json) + Len(invalid_json)
                         + Len(missing_fields) + Len(missing_images)
    /\ dep_pc' = "summary"
    /\ UNCHANGED <<object_ids, dep_files, dep_i, missing_json, invalid_json,
                   missing_fields, missing_images, errored_files, verdict>>

\* the optional move of unreferenced files to trash/ and the final summary
FinalSummary ==
    /\ dep_pc = "summary"
    /\ \E move_to_trash \in {"y", "n"} :
         dep_files' = IF move_to_trash = "y"
                      THEN [id \in DeployIds |->
                              IF id \in extra_metadata
                              THEN [kind |-> "missing", fields |-> NoFields,
                                    image_exists |-> FALSE]
                              ELSE dep_files[id]]
                      ELSE dep_files
    /\ verdict' = IF total_issues > 0 THEN "fix" ELSE "ready"
    /\ dep_pc' = "end"
    /\ UNCHANGED <<object_ids, dep_i, missing_json, invalid_json, missing_fields,
                   missing_images, errored_files, extra_metadata, total_issues>>

ListedIds ==
    UNION {[1 .. n -> DeployIds] : n \in 0 .. MaxListed}

InitDeploy ==
    /\ object_ids \in ListedIds
    /\ dep_files \in [DeployIds -> DeployFiles]
    /\ dep_pc = "loop"
    /\ dep_i = 1
    /\ missing_json = <<>>
    /\ invalid_json = <<>>
    /\ missing_fields = <<>>
    /\ missing_images = <<>>
    /\ errored_files = {}
    /\ extra_metadata = {}
    /\ total_issues = 0
    /\ verdict = "none"

\* ------------------------------------------------------------------------
\* NGADownloader.is_public_domain on the text of the object page
\* ------------------------------------------------------------------------
MaxPdCalls == 2

\* A text is a sequence of words; a word is its lower-case spelling and
\* whether it is written with capitals.
Lc(w) == [w |-> w, cap |-> FALSE]
Cap(w) == [w |-> w, cap |-> TRUE]

\* str.lower()
Lower(text) == [i \in 1 .. Len(text) |-> Lc(text[i].w)]

\* str.upper(), to write a text in another case
Upper(text) == [i \in 1 .. Len(text) |-> Cap(text[i].w)]

\* phrase in text
Contains(text, phrase) ==
    \E i \in 0 .. (Len(text) - Len(phrase)) :
        SubSeq(text, i + 1, i + Len(phrase)) = phrase

InThePublicDomain(apostrophe) ==
    <<Cap("this"), Lc(apostrophe), Lc("media"), Lc("is"), Lc("free"), Lc("and"),
      Lc("in"), Lc("the"), Lc("public"), Lc("domain")>>

positive_phrases ==
    <<<<Cap("image"), Lc("download"), Lc("available")>>,
      InThePublicDomain("object's"),
      InThePublicDomain("object\\u2019s"),
      <<Cap("download"), Lc("image")>>>>

negative_phrases ==
    <<<<Cap("this"), Lc("image"), Lc("cannot"), Lc("be"), Lc("downloaded")>>,
      <<Cap("image"), Lc("not"), Lc("available"), Lc("for"), Lc("download")>>,
      <<Cap("rights"), Lc("restricted")>>>>

\* phrase matching without lowering either side
ContainsAnyAsWritten(text, phrases) ==
    \E k \in 1 .. Len(phrases) : Contains(text, phrases[k])

\* text = resp.text.lower(); any(phrase.lower() in text for phrase in phrases)
ContainsAny(text, phrases) ==
    \E k \in 1 .. Len(phrases) : Contains(Lower(text), Lower(phrases[k]))

Filler == <<Cap("national"), Lc("gallery"), Lc("of"), Lc("art")>>

\* texts of object pages
PageTexts ==
    {<<>>,
     Filler,
     Filler \o positive_phrases[1],
     Upper(positive_phrases[1]) \o Filler,
     Lower(positive_phrases[2]),
     positive_phrases[3],
     positive_phrases[4],
     <<Lc("image"), Lc("download")>>,
     negative_phrases[1],
     Upper(negative_phrases[2]),
     Lower(negative_phrases[3]) \o Filler,
     positive_phrases[1] \o Filler \o negative_phrases[1],
     Upper(negative_phrases[3]) \o positive_phrases[1],
     negative_phrases[2] \o <<Lc("image")>>}

\* answers of the object page: status 0 is a timeout or another exception
ObjectPages ==
    {[status |-> 200, text |-> t] : t \in PageTexts}
      \cup {[status |-> c, text |-> <<>>] : c \in {404, 500, 0}}
      \cup {[status |-> 404, text |-> positive_phrases[1]]}

\* what the scan of the page finds: found_not_pd and found_pd
ScanPage(resp) ==
    [status |-> resp.status,
     neg |-> resp.status = 200 /\ ContainsAny(resp.text, negative_phrases),
     pos |-> resp.status = 200 /\ ContainsAny(resp.text, positive_phrases)]

PdIds == {"1138", "46114"}

\* one call of is_public_domain(object_id, uuid)
IsPublicDomain ==
    /\ pd_calls < MaxPdCalls
    /\ \E id \in PdIds, has_uuid \in BOOLEAN, resp \in ObjectPages,
          head \in HeadResponses :
         LET r == is_public_domain(id, has_uuid, ScanPage(resp), head,
                                   pd_public_domain_ids, pd_not_public_domain_ids)
         IN  /\ pd_object_id' = id
             /\ pd_uuid' = has_uuid
             /\ pd_resp' = resp
             /\ pd_head' = head
             /\ pd_was_cached' = (id \in pd_public_domain_ids \cup pd_not_public_domain_ids)
             /\ pd_result' = r.result
             /\ pd_public_domain_ids' = r.pd
             /\ pd_not_public_domain_ids' = r.not_pd
    /\ pd_calls' = pd_calls + 1

InitPd ==
    /\ pd_public_domain_ids \in SUBSET PdIds
    /\ pd_not_public_domain_ids \in SUBSET (PdIds \ pd_public_domain_ids)
    /\ pd_calls = 0
    /\ pd_object_id = "1138"
    /\ pd_uuid = FALSE
    /\ pd_resp = [status |-> 0, text |-> <<>>]
    /\ pd_head = 0
    /\ pd_was_cached = FALSE
    /\ pd_result = FALSE

\* ------------------------------------------------------------------------
\* NGADownloader.load_objects_csv
\* ------------------------------------------------------------------------
MaxRows == 2
MAX_CREATION_YEAR == 1928

DigitChars == <<"0", "1", "2", "3", "4", "5", "6", "7", "8", "9">>
DigitValue(c) == (CHOOSE i \in 1 .. 10 : DigitChars[i] = c) - 1

AllDigits(str) == str # <<>> /\ \A i \in 1 .. Len(str) : str[i] \in Range(DigitChars)

\* int(str) succeeds: an optional sign and decimal digits
IsInt(str) ==
    /\ str # <<>>
    /\ IF Head(str) \in {"-", "+"} THEN AllDigits(Tail(str)) ELSE AllDigits(str)

RECURSIVE DigitsToInt(_)
DigitsToInt(str) ==
    IF str = <<>> THEN 0
    ELSE 10 * DigitsToInt(SubSeq(str, 1, Len(str) - 1)) + DigitValue(str[Len(str)])

\* int(str) where it succeeds
IntOf(str) ==
    IF Head(str) = "-" THEN 0 - DigitsToInt(Tail(str))
    ELSE IF Head(str) = "+" THEN DigitsToInt(Tail(str))
    ELSE DigitsToInt(str)

Y1927 == <<"1", "9", "2", "7">>
Y1928 == <<"1", "9", "2", "8">>
Y1929 == <<"1", "9", "2", "9">>

\* beginyear / endyear cells: empty, years around the cutoff (one padded
\* with blanks), a date that is no number, a year before the common era
BeginYears == {<<>>, Y1927, <<" ">> \o Y1929}
EndYears == {<<>>, Y1927, Y1928 \o <<" ">>, Y1929, <<"c", ".", "1", "9">>,
             <<"-", "5", "0", "0">>}

CsvRows ==
    [objectid : {"", "1138", "46114"},
     classification : {"Painting", "sculpture"},
     locationid : {"", "G-12"},
     beginyear : BeginYears,
     endyear : EndYears]

\* classification.strip().lower() not in the lowered SEARCH_PARAMS list
WrongClassification(row) == row.classification # "Painting"

\* latest_year = end_year if end_year else begin_year
LatestYear(row) ==
    IF Strip(row.endyear) # <<>> THEN Strip(row.endyear) ELSE Strip(row.beginyear)

\* the date filter: "drop" a row whose latest year is after max_year or is
\* no number, "keep" every other row
DateFilter(row, max_year) ==
    IF LatestYear(row) = <<>> THEN "keep"
    ELSE IF ~IsInt(LatestYear(row)) THEN "drop"
    ELSE IF IntOf(LatestYear(row)) > max_year THEN "drop"
    ELSE "keep"

\* one iteration of the loop over the rows of objects.csv
LoadRow ==
    /\ csv_pc = "rows"
    /\ csv_i <= Len(csv_rows)
    /\ LET row == csv_rows[csv_i]
       IN  IF row.objectid = "" \/ WrongClassification(row) \/ row.locationid = ""
           THEN UNCHANGED <<objects, filtered_by_date>>
           ELSE IF DateFilter(row, MAX_CREATION_YEAR) = "drop"
           THEN /\ filtered_by_date' = filtered_by_date + 1
                /\ UNCHANGED objects
           ELSE /\ objects' = [id \in DOMAIN objects \cup {row.objectid} |->
                                 IF id = row.objectid THEN row ELSE objects[id]]
                /\ UNCHANGED filtered_by_date
    /\ csv_i' = csv_i + 1
    /\ UNCHANGED <<csv_rows, csv_pc>>

\* the rows are exhausted: return objects
ReturnObjects ==
    /\ csv_pc = "rows"
    /\ csv_i > Len(csv_rows)
    /\ csv_pc' = "done"
    /\ UNCHANGED <<csv_rows, csv_i, objects, filtered_by_date>>

\* reading the file raises: return {}
CsvError ==
    /\ csv_pc = "rows"
    /\ objects' = << >>
    /\ csv_pc' = "done"
    /\ UNCHANGED <<csv_rows, csv_i, filtered_by_date>>

InitCsv ==
    /\ csv_rows \in UNION {[1 .. n -> CsvRows] : n \in 1 .. MaxRows}
    /\ csv_pc = "rows"
    /\ csv_i = 1
    /\ objects = << >>
    /\ filtered_by_date = 0

\* ------------------------------------------------------------------------
\* append_to_artworkids of metfetch and chicfetch on the same file
\* ------------------------------------------------------------------------
MaxAppends == 2

Scripts == {"met", "chic"}

\* the IDs the scripts process, in order; NewId is the n-th ID of a script
ProcessedIds ==
    [met  |-> <<"436535", "436536", "436537", "436538">>,
     chic |-> <<"27992", "27993", "27994", "27995">>]

NewId(script, n) == ProcessedIds[script][n]

\* content of a file that json.load cannot parse: truncated by open(.., 'w')
\* and not yet written, or overwritten by two writers at once
NotJson == <<"not json">>

\* the list a script starts from: the parsed file; on a file that does not
\* parse chicfetch starts from [] (metfetch fails the call instead)
LoadedIds(script, content) == IF content = NotJson THEN <<>> ELSE content

\* if TEMP_NEWIDS_FILE.exists(): ids = json.load(f); ids.append(str(object_id))
AppendRead(script) ==
    /\ ap_pc[script] = "call"
    /\ ap_n' = [ap_n EXCEPT ![script] = @ + 1]
    /\ IF script = "met" /\ shared_file = NotJson
       THEN \* json.load raises: return False
            /\ ap_pc' = [ap_pc EXCEPT ![script] =
                            IF ap_n'[script] >= MaxAppends THEN "done" ELSE "call"]
            /\ UNCHANGED ap_ids
       ELSE /\ ap_ids' = [ap_ids EXCEPT ![script] =
                             Append(LoadedIds(script, shared_file),
                                    NewId(script, ap_n'[script]))]
            /\ ap_pc' = [ap_pc EXCEPT ![script] = "open"]
    /\ UNCHANGED <<shared_file, ap_overlapped, returned_true>>

\* with open(TEMP_NEWIDS_FILE, 'w') as f: the file is truncated
AppendOpen(script) ==
    /\ ap_pc[script] = "open"
    /\ shared_file' = NotJson
    /\ ap_pc' = [ap_pc EXCEPT ![script] = "dump"]
    /\ ap_overlapped' = [ap_overlapped EXCEPT ![script] = FALSE]
    /\ UNCHANGED <<ap_ids, ap_n, returned_true>>

\* json.dump(ids, f, indent=2); return True.  Written from offset 0 over
\* what another open handle wrote meanwhile, the text is this script's list
\* or a mix that does not parse.
AppendDump(script) ==
    /\ ap_pc[script] = "dump"
    /\ shared_file' \in IF ap_overlapped[script]
                        THEN {ap_ids[script], NotJson}
                        ELSE {ap_ids[script]}
    /\ ap_overlapped' = [s \in Scripts |->
                           IF s # script /\ ap_pc[s] = "dump" THEN TRUE
                           ELSE ap_overlapped[s]]
    /\ returned_true' = returned_true \cup {NewId(script, ap_n[script])}
    /\ ap_pc' = [ap_pc EXCEPT ![script] =
                    IF ap_n[script] >= MaxAppends THEN "done" ELSE "call"]
    /\ UNCHANGED <<ap_ids, ap_n>>

InitAppend ==
    /\ shared_file \in {<<>>, <<"1138">>}
    /\ ap_pc = [s \in Scripts |-> "call"]
    /\ ap_ids = [s \in Scripts |-> <<>>]
    /\ ap_n = [s \in Scripts |-> 0]
    /\ ap_overlapped = [s \in Scripts |-> FALSE]
    /\ returned_true = {}

\* ------------------------------------------------------------------------
\* Specifications
\* ------------------------------------------------------------------------
\* the parts of the state a specification does not use stay as constructed
IdleRun ==
    /\ fetcher = "met"
    /\ pc = "idle"
    /\ files = [p \in Paths |-> <<>>]
    /\ unreadable = {}
    /\ existing_ids = {}
    /\ blacklist_ids = {}
    /\ api_ids = {}
    /\ new_ids = <<>>
    /\ to_download = <<>>
    /\ idx = 1
    /\ object_id = <<>>
    /\ artwork_data = NoData
    /\ verified_public_domain = FALSE
    /\ local_image_filename = <<>>
    /\ images = {}
    /\ metadata_files = {}
    /\ failed_downloads = <<>>
    /\ successful_downloads = <<>>
    /\ downloaded_count = 0
    /\ newly_blacklisted = <<>>
    /\ public_domain_ids = {}
    /\ not_public_domain_ids = {}
    /\ calls = <<>>
    /\ start_ids = {}
    /\ start_blacklist = {}
    /\ start_newids = {}
    /\ rejected = {}
    /\ writes = <<>>
    /\ answers = <<>>

IdleSearch ==
    /\ search_fetcher = "chic"
    /\ search_pc = "idle"
    /\ page = 1
    /\ pages_fetched = 0
    /\ all_ids_len = 0
    /\ requests_made = 0
    /\ returned_len = 0

IdleBot ==
    /\ bot_pc = "idle"
    /\ retry_count = 0
    /\ successful_post = FALSE
    /\ bot_object_id = Unbound
    /\ creation_id = NoCreation
    /\ polls = 0
    /\ attempts = 0
    /\ status_true = {}
    /\ published = <<>>

IdleCredit ==
    /\ json_files = [f \in 1 .. NumFiles |-> Unreadable]
    /\ credit_pc = "idle"
    /\ file_i = 1
    /\ run_no = 1
    /\ results = [r \in 1 .. MaxRuns |-> [f \in 1 .. NumFiles |-> NoResult]]
    /\ after = [r \in 1 .. MaxRuns |-> [f \in 1 .. NumFiles |-> Unreadable]]

IdleDeploy ==
    /\ object_ids = <<>>
    /\ dep_files = [id \in DeployIds |->
                      [kind |-> "missing", fields |-> NoFields, image_exists |-> FALSE]]
    /\ dep_pc = "idle"
    /\ dep_i = 1
    /\ missing_json = <<>>
    /\ invalid_json = <<>>
    /\ missing_fields = <<>>
    /\ missing_images = <<>>
    /\ errored_files = {}
    /\ extra_metadata = {}
    /\ total_issues = 0
    /\ verdict = "none"

IdlePd ==
    /\ pd_public_domain_ids = {}
    /\ pd_not_public_domain_ids = {}
    /\ pd_calls = MaxPdCalls
    /\ pd_object_id = "1138"
    /\ pd_uuid = FALSE
    /\ pd_resp = [status |-> 0, text |-> <<>>]
    /\ pd_head = 0
    /\ pd_was_cached = FALSE
    /\ pd_result = FALSE

IdleCsv ==
    /\ csv_rows = << >>
    /\ csv_pc = "idle"
    /\ csv_i = 1
    /\ objects = << >>
    /\ filtered_by_date = 0

IdleAppend ==
    /\ shared_file = <<>>
    /\ ap_pc = [s \in Scripts |-> "idle"]
    /\ ap_ids = [s \in Scripts |-> <<>>]
    /\ ap_n = [s \in Scripts |-> 0]
    /\ ap_overlapped = [s \in Scripts |-> FALSE]
    /\ returned_true = {}

notRun == <<varsSearch, varsBot, varsCredit, varsDeploy, varsPd, varsCsv, varsAppend>>
notSearch == <<varsRun, varsBot, varsCredit, varsDeploy, varsPd, varsCsv, varsAppend>>
notBot == <<varsRun, varsSearch, varsCredit, varsDeploy, varsPd, varsCsv, varsAppend>>
notCredit == <<varsRun, varsSearch, varsBot, varsDeploy, varsPd, varsCsv, varsAppend>>
notDeploy == <<varsRun, varsSearch, varsBot, varsCredit, varsPd, varsCsv, varsAppend>>
notPd == <<varsRun, varsSearch, varsBot, varsCredit, varsDeploy, varsCsv, varsAppend>>
notCsv == <<varsRun, varsSearch, varsBot, varsCredit, varsDeploy, varsPd, varsAppend>>
notAppend == <<varsRun, varsSearch, varsBot, varsCredit, varsDeploy, varsPd, varsCsv>>

\* a run of one fetcher script
Init == InitRun /\ IdleSearch /\ IdleBot /\ IdleCredit /\ IdleDeploy /\ IdlePd /\ IdleCsv /\ IdleAppend

Next ==
    \/ RunStart /\ UNCHANGED notRun
    \/ LoopNext /\ UNCHANGED notRun
    \/ PrintSummary /\ UNCHANGED notRun
    \/ FetchMetadata /\ UNCHANGED notRun
    \/ GetArtworkMetadata /\ UNCHANGED notRun
    \/ VerifyPublicDomain /\ UNCHANGED notRun
    \/ DownloadImage /\ UNCHANGED notRun
    \/ SaveMetadata /\ UNCHANGED notRun
    \/ AppendToArtworkids /\ UNCHANGED notRun

Spec == Init /\ [][Next]_vars

\* one call of fetch_available_artworks
InitSearchOnly == InitSearch /\ IdleRun /\ IdleBot /\ IdleCredit /\ IdleDeploy /\ IdlePd /\ IdleCsv /\ IdleAppend

NextSearch ==
    \/ ChicSearchPage /\ UNCHANGED notSearch
    \/ RijksSearchPage /\ UNCHANGED notSearch
    \/ RijksLoopExit /\ UNCHANGED notSearch

SpecSearch == InitSearchOnly /\ [][NextSearch]_vars

\* the script runs on: a step that can be taken is taken
SpecSearchFair == SpecSearch /\ WF_vars(NextSearch)

\* one run of autobot.main
InitBotOnly == InitBot /\ IdleRun /\ IdleSearch /\ IdleCredit /\ IdleDeploy /\ IdlePd /\ IdleCsv /\ IdleAppend

NextBot ==
    \/ BotMain /\ UNCHANGED notBot
    \/ BotWhile /\ UNCHANGED notBot
    \/ PickRandomArtwork /\ UNCHANGED notBot
    \/ GetMetadata /\ UNCHANGED notBot
    \/ CreateMediaContainer /\ UNCHANGED notBot
    \/ CheckMediaStatus /\ UNCHANGED notBot
    \/ PublishMedia /\ UNCHANGED notBot

SpecBot == InitBotOnly /\ [][NextBot]_vars

\* every HTTP call returns or raises
SpecBotFair == SpecBot /\ WF_vars(NextBot)

\* runs of json_processor on one directory
InitCreditOnly == InitCredit /\ IdleRun /\ IdleSearch /\ IdleBot /\ IdleDeploy /\ IdlePd /\ IdleCsv /\ IdleAppend

NextCredit ==
    \/ ProcessFile /\ UNCHANGED notCredit
    \/ ProcessingComplete /\ UNCHANGED notCredit
    \/ RunAgain /\ UNCHANGED notCredit

SpecCredit == InitCreditOnly /\ [][NextCredit]_vars

\* one run of deploycheck.py
InitDeployOnly == InitDeploy /\ IdleRun /\ IdleSearch /\ IdleBot /\ IdleCredit /\ IdlePd /\ IdleCsv /\ IdleAppend

NextDeploy ==
    \/ ValidateId /\ UNCHANGED notDeploy
    \/ ValidationResults /\ UNCHANGED notDeploy
    \/ FinalSummary /\ UNCHANGED notDeploy

SpecDeploy == InitDeployOnly /\ [][NextDeploy]_vars

\* calls of NGADownloader.is_public_domain
InitPdOnly == InitPd /\ IdleRun /\ IdleSearch /\ IdleBot /\ IdleCredit /\ IdleDeploy /\ IdleCsv /\ IdleAppend

NextPd ==
    \/ IsPublicDomain /\ UNCHANGED notPd

SpecPd == InitPdOnly /\ [][NextPd]_vars

\* one call of NGADownloader.load_objects_csv
InitCsvOnly == InitCsv /\ IdleRun /\ IdleSearch /\ IdleBot /\ IdleCredit /\ IdleDeploy /\ IdlePd /\ IdleAppend

NextCsv ==
    \/ LoadRow /\ UNCHANGED notCsv
    \/ ReturnObjects /\ UNCHANGED notCsv
    \/ CsvError /\ UNCHANGED notCsv

SpecCsv == InitCsvOnly /\ [][NextCsv]_vars

\* metfetch and chicfetch running at the same time, their steps interleaved
InitAppendOnly ==
    InitAppend /\ IdleRun /\ IdleSearch /\ IdleBot /\ IdleCredit /\ IdleDeploy
        /\ IdlePd /\ IdleCsv

NextAppend ==
    \/ \E script \in Scripts : AppendRead(script) /\ UNCHANGED notAppend
    \/ \E script \in Scripts : AppendOpen(script) /\ UNCHANGED notAppend
    \/ \E script \in Scripts : AppendDump(script) /\ UNCHANGED notAppend

SpecAppend == InitAppendOnly /\ [][NextAppend]_vars

\* ========================================================================
\* Properties of the fetcher runs (specification Spec)
\* ========================================================================
MuseumApiFetchers == {"met", "chic", "rijks"}

\* the API IDs as artworkids.json / dontfetch entries
ApiStrs == {StrOf(fetcher, i) : i \in api_ids}

\* C1: in metfetch, chicfetch and rijksfetch every ID handed to
\* process_artwork was returned by the search and was neither in
\* artworkids.json nor in the dontfetch list when the run started.
C1_ProcessedAreNew ==
    fetcher \in MuseumApiFetchers =>
        \A k \in 1..Len(calls) :
            /\ calls[k] \in api_ids
            /\ StrOf(fetcher, calls[k]) \notin start_ids
            /\ StrOf(fetcher, calls[k]) \notin start_blacklist

\* C1 witness: a finished run that processed something although the search
\* also returned an ID already collected and an ID already blacklisted
C1_Witness ==
    /\ fetcher \in MuseumApiFetchers
    /\ pc = "done"
    /\ calls # <<>>
    /\ ApiStrs \cap start_ids # {}
    /\ ApiStrs \cap start_blacklist # {}

\* C2: in ngafetch the download, the metadata save and the artworkids
\* append of a process_artwork call happen only after is_public_domain
\* returned True in that call, and an object it rejected gets no image
\* file, no metadata file and no artworkids entry.
C2_VerifiedBeforeDownload ==
    fetcher = "nga" =>
        /\ pc \in {"download", "save", "append"} => verified_public_domain
        /\ \A k \in 1..Len(writes) : writes[k].id \notin rejected
        /\ \A id \in rejected :
             /\ ImageOf(id) \cap images = {}
             /\ \A m \in metadata_files : m.objectID # id
             /\ id \in Range(files[TEMP_NEWIDS_FILE(fetcher)]) => id \in start_newids

\* C2 witness: one object was rejected and another was downloaded, saved
\* and appended in the same run
C2_Witness ==
    /\ fetcher = "nga"
    /\ rejected # {}
    /\ \E k \in 1..Len(writes) : writes[k].op = "artworkids"

\* C3: whenever a fetcher appended an ID to artworkids.json, the image file
\* and the metadata file of that ID were written earlier in the run, and
\* every entry the list gained was appended that way.
C3_AppendAfterImageAndMetadata ==
    /\ \A k \in 1..Len(writes) :
         writes[k].op = "artworkids" =>
             /\ \E i \in 1..(k - 1) :
                  writes[i] = [op |-> "image", id |-> writes[k].id]
             /\ \E j \in 1..(k - 1) :
                  writes[j] = [op |-> "metadata", id |-> writes[k].id]
             /\ ImageOf(writes[k].id) \cap images # {}
             /\ \E m \in metadata_files : m.objectID = writes[k].id
    /\ \A id \in Range(files[TEMP_NEWIDS_FILE(fetcher)]) \ start_newids :
         \E k \in 1..Len(writes) : writes[k] = [op |-> "artworkids", id |-> id]

\* C3 witness: a run in which one call failed after its image was written
\* and another call got as far as the append
C3_Witness ==
    /\ \E k \in 1..Len(writes) : writes[k].op = "artworkids"
    /\ \E k \in 1..Len(writes) :
         /\ writes[k].op = "image"
         /\ \A j \in 1..Len(writes) :
              writes[j] # [op |-> "artworkids", id |-> writes[k].id]
    /\ pc = "done"

\* C4: every metadata file the fetchers write has isPublicDomain true, and
\* no artwork whose detail record is not public domain is saved or added
\* to artworkids.json.
C4_PublicDomainOnly ==
    /\ \A m \in metadata_files : m.isPublicDomain = TRUE
    /\ fetcher # "nga" /\ pc \in {"save", "append"} => artwork_data.pd

\* ascending order of the IDs as the fetcher sorts them
Ascending(f, seq) ==
    \A i \in 1..Len(seq) : \A j \in (i + 1)..Len(seq) :
        CASE NumericApi(f) -> seq[i] < seq[j]
          [] f = "rijks"   -> LexLess(seq[i], seq[j])
          [] f = "nga"     -> StrToInt(seq[i]) < StrToInt(seq[j])

\* C5: a run calls process_artwork for the first MAX_NEW_ARTWORKS new IDs in
\* ascending order, each once, so successes plus failures never exceed
\* MAX_NEW_ARTWORKS.
C5_AtMostMaxNewArtworks ==
    /\ Len(successful_downloads) + Len(failed_downloads) <= MAX_NEW_ARTWORKS(fetcher)
    /\ downloaded_count = Len(successful_downloads)
    /\ Len(calls) <= MAX_NEW_ARTWORKS(fetcher)
    /\ Len(calls) <= Len(new_ids)
    /\ calls = SubSeq(new_ids, 1, Len(calls))
    /\ Ascending(fetcher, new_ids)
    /\ pc = "done" /\ new_ids # <<>> =>
         /\ Len(calls) = Min(MAX_NEW_ARTWORKS(fetcher), Len(new_ids))
         /\ Len(successful_downloads) + Len(failed_downloads) = Len(calls)

\* C5 witness: a finished metfetch run that found more new IDs than
\* MAX_NEW_ARTWORKS and processed only the first
C5_Witness ==
    /\ pc = "done"
    /\ Len(new_ids) > MAX_NEW_ARTWORKS(fetcher)
    /\ Len(calls) = MAX_NEW_ARTWORKS(fetcher)
    /\ calls[1] = new_ids[1]
    /\ Len(successful_downloads) + Len(failed_downloads) = MAX_NEW_ARTWORKS(fetcher)


\* ========================================================================
\* Properties of the search pagination (SpecSearch, SpecSearchFair)
\* ========================================================================

\* C6: the paginated search of chicfetch and of rijksfetch terminates for
\* every sequence of server answers, whatever pagination fields the server
\* states, and issues at most MAX_SEARCH_PAGES requests.
C6_SearchTerminates ==
    /\ [](requests_made <= MAX_SEARCH_PAGES(search_fetcher))
    /\ <>(search_pc = "done")

\* the search ran into the page cap: it returned after exactly
\* MAX_SEARCH_PAGES requests, every page full and more pages announced
C6_Witness ==
    /\ search_pc = "done"
    /\ requests_made = MAX_SEARCH_PAGES(search_fetcher)
    /\ pages_fetched = MAX_SEARCH_PAGES(search_fetcher)

\* C7: MAX_SEARCH_RESULTS_CAP is an absolute cap: for pages of at most the
\* requested limit, neither all_ids nor the returned list of chicfetch or
\* rijksfetch ever holds more than MAX_SEARCH_RESULTS_CAP IDs.
C7_CapIsAbsolute ==
    /\ all_ids_len <= MAX_SEARCH_RESULTS_CAP
    /\ returned_len <= MAX_SEARCH_RESULTS_CAP

\* ========================================================================
\* Properties of autobot.main (SpecBot, SpecBotFair)
\* ========================================================================

\* an iteration of the retry loop is over: control is at the loop test or
\* has left main
IterationOver == bot_pc \in {"while", "end", "crashed"}

\* C8: the retry loop of autobot.main runs at most MAX_RETRIES iterations
\* and terminates, because every iteration either sets successful_post or
\* increments retry_count.
C8_RetryLoopBounded ==
    /\ [](attempts <= MAX_RETRIES)
    /\ [](IterationOver => successful_post \/ retry_count = attempts)
    /\ <>(bot_pc \in {"end", "crashed"})

\* C9: publish_media is called only after check_media_status returned True
\* for the creation id of the same attempt.
C9_PublishAfterStatusTrue ==
    /\ \A i \in 1 .. Len(published) : published[i] \in status_true
    /\ bot_pc = "publish" => <<attempts, creation_id>> \in status_true

\* a second attempt published after its own status check, the first attempt
\* having been turned down for a container with the same creation id
C9_Witness ==
    /\ Len(published) = 1
    /\ published[1][1] = 2
    /\ retry_count = 1
    /\ successful_post
    /\ status_true = {published[1]}

\* ========================================================================
\* Properties of json_processor (SpecCredit)
\* ========================================================================

\* C10: prepend_credit_line is idempotent: applied a second time to a file
\* it already processed it returns SKIP and leaves the file unchanged, also
\* when the original creditLine is empty or only whitespace.
C10_PrependIsIdempotent ==
    \A f \in 1 .. NumFiles :
        results[1][f] \in {"SUCCESS", "SKIP"} /\ results[2][f] # NoResult
            => /\ results[2][f] = "SKIP"
               /\ after[2][f] = after[1][f]

\* ========================================================================
\* Properties of deploycheck (SpecDeploy)
\* ========================================================================

\* the metadata file of a listed ID exists, was read and parsed, holds all
\* five required fields with a value other than null or the empty string,
\* and the image named by localImage exists
ReadyToDeploy(id) ==
    /\ dep_files[id].kind = "object"
    /\ \A f \in RequiredFields : ~FieldMissing(dep_files[id], f)
    /\ dep_files[id].image_exists

\* C11: deploycheck reports that all required checks passed and the dataset
\* is ready to deploy (total_issues = 0) only if every ID of artworkids.json
\* has a metadata file that exists, was read and parsed without error, holds
\* the five required fields with a value other than null or the empty
\* string, and whose localImage names an existing image file.
C11_ReadyOnlyIfAllValid ==
    verdict = "ready" =>
        \A i \in 1 .. Len(object_ids) : ReadyToDeploy(object_ids[i])

\* ========================================================================
\* Properties of NGADownloader.is_public_domain (SpecPd)
\* ========================================================================

\* the text holds one of the phrases, whatever the case of either
Mentions(text, phrases) ==
    \E k \in 1 .. Len(phrases) :
        \E i \in 0 .. (Len(text) - Len(phrases[k])) :
            \A j \in 1 .. Len(phrases[k]) : text[i + j].w = phrases[k][j].w

\* C12: for an object in neither cache is_public_domain returns True only if
\* the object page came with status 200 and its text holds a positive phrase
\* and no negative phrase, case ignored; a page holding both gives False, and
\* so does a page that confirms nothing (404, other status, timeout, no
\* phrase).
C12_TrueOnlyIfConfirmed ==
    pd_calls > 0 /\ ~pd_was_cached =>
        /\ pd_result => /\ pd_resp.status = 200
                        /\ Mentions(pd_resp.text, positive_phrases)
                        /\ ~Mentions(pd_resp.text, negative_phrases)
        /\ Mentions(pd_resp.text, negative_phrases) => ~pd_result
        /\ pd_resp.status # 200 => ~pd_result

\* an uncached object was accepted on a page whose positive phrase is not
\* written in the case of the phrase list
C12_Witness ==
    /\ pd_calls > 0
    /\ ~pd_was_cached
    /\ pd_result
    /\ ~ContainsAnyAsWritten(pd_resp.text, positive_phrases)

\* an uncached object was turned down on a page holding both a positive and
\* a negative phrase
C12_WitnessBoth ==
    /\ pd_calls > 0
    /\ ~pd_was_cached
    /\ ~pd_result
    /\ Mentions(pd_resp.text, positive_phrases)
    /\ Mentions(pd_resp.text, negative_phrases)

\* ========================================================================
\* Properties of NGADownloader.load_objects_csv (SpecCsv)
\* ========================================================================

\* C13: with maxCreationYear set, every object load_objects_csv returns has
\* a latest creation year (endyear if present, otherwise beginyear) that is
\* strictly less than maxCreationYear.
C13_CreatedBeforeMaxYear ==
    csv_pc = "done" =>
        \A id \in DOMAIN objects :
            /\ IsInt(LatestYear(objects[id]))
            /\ IntOf(LatestYear(objects[id])) < MAX_CREATION_YEAR

\* ========================================================================
\* Properties of the metadata requests of the fetcher runs (Spec)
\* ========================================================================

\* the request failed with a network error or a status other than 404, 502
NetworkFailure(a) == a.resp.status \notin {200, 404, 502}

\* new_ids as a run started now with the same search results would find it
NewIdsOfLaterRun ==
    Range(compare_and_report(fetcher, api_ids,
                             load_existing_ids(fetcher, files, unreadable),
                             load_blacklist(fetcher, files, unreadable), {}))

\* C14: in metfetch, chicfetch and rijksfetch a metadata request that fails
\* with a network error or an HTTP status other than 404 or 502 leaves the
\* blacklist file unchanged, and the ID is selected as new again by a later
\* run; the blacklist file changes only on 404, 502, a missing image or a
\* failed public-domain check.
C14_NetworkErrorsDoNotBlacklist ==
    fetcher \in MuseumApiFetchers =>
        \A i \in 1 .. Len(answers) :
            /\ NetworkFailure(answers[i]) =>
                   /\ ~answers[i].blacklisted
                   /\ pc = "done" => answers[i].id \in NewIdsOfLaterRun
            /\ answers[i].blacklisted =>
                   \/ answers[i].resp.status \in {404, 502}
                   \/ /\ answers[i].resp.status = 200
                      /\ ~(answers[i].resp.pd /\ answers[i].resp.img)

\* a finished run in which one request timed out and another was answered
\* 404 and blacklisted
C14_Witness ==
    /\ fetcher \in MuseumApiFetchers
    /\ pc = "done"
    /\ \E i, j \in 1 .. Len(answers) :
         /\ answers[i].resp.status = 0
         /\ answers[j].resp.status = 404
         /\ answers[j].blacklisted

\* ========================================================================
\* Properties of concurrent appends to artworkids.json (SpecAppend)
\* ========================================================================

\* C15: artworkids.json needs no coordination: when metfetch and chicfetch
\* run at the same time with their steps interleaved and both have finished,
\* the file holds every ID for which append_to_artworkids returned True.
C15_NoAppendIsLost ==
    (\A s \in Scripts : ap_pc[s] = "done") =>
        /\ shared_file # NotJson
        /\ returned_true \subseteq Range(shared_file)

====
